---- MODULE Spec2Model ----
(***************************************************************************)
(* Ciousten video pipeline: the annotate page (upload, start segmentation, *)
(* recursive status polling), the analyze and reports pages, the ApiClient *)
(* they call, the project registry behind the HTTP API, and the timeline   *)
(* components.                                                             *)
(***************************************************************************)
EXTENDS Integers, Sequences, FiniteSets, TLC

\* ------------------------------------------------------------------ bounds
\* Projects the registry can hold.
MaxProjects == 2
\* handleSegment invocations during one lifetime of the annotate page.
MaxRuns == 2
\* Segmentation jobs the engine can hold for one project.
MaxJobs == 2
\* Anomalies in one timeline input, and the largest small frame number.
MaxAnomalies == 2
MaxFrame == 3
\* Activities in one activity-track input.
MaxActivities == 2
\* addToast calls during one lifetime of the ToastProvider.
MaxToasts == 3

\* useState<string | null>(null): no project id held.
NoProject == 0
\* useState<any>(null): no segmentation stats held.
NoStats == 0

ProjectIds == 1..MaxProjects
Runs == 1..MaxRuns

\* progress values a status read can carry (0 also stands for an absent field:
\* both are falsy in `if (statusData.progress)`); the field is an unchecked
\* number, so values outside 0..100 are among them.
ProgressValues == {-10, 0, 20, 40, 150}

\* Results an analysis request can return: key_findings is always there, the
\* optional fields are there or absent.
AnalysisResults ==
    {[key_findings |-> k, anomaly_events |-> o, activities |-> o, kpis |-> o] :
        k \in {"A", "B"}, o \in {"absent", "A"}}

\* useState<any>(null): no analysis held.
NoAnalysis ==
    [key_findings |-> "null", anomaly_events |-> "null", activities |-> "null",
     kpis |-> "null"]

VARIABLES
    version,      \* "v2": AnnotatePage of part_000 (ApiClient, catch in pollStatus);
                  \* "v1": AnnotatePage of part_001 (raw fetch, no catch)
    mounted,      \* the page component is mounted
    file,         \* a file is selected
    projectId,    \* NoProject or the id returned by the upload
    uploading,
    segmenting,
    status,       \* page status: idle, uploading, uploaded, segmenting, segmented, error
    stats,        \* NoStats or the stats of the last completed poll
    progress,
    uploadReq,    \* "none", or the upload request in flight: "upload" / "sample"
    nRuns,        \* handleSegment invocations so far
    loop,         \* loop[r]: position of run r of handleSegment / pollStatus
    statusData,   \* statusData[r]: the status response run r is about to process
    srv,          \* the project registry behind the API
    apiLast,      \* the last direct ApiClient call and its outcome
    aLoading,     \* AnalyzePage: loading
    aProjects,    \* AnalyzePage: projects (ids of the filtered list)
    selectedProject,
    analyzing,
    analysis,     \* AnalyzePage: NoAnalysis or the analysis held
    aData,        \* AnalyzePage: how the last analyze request settled, with its data
    aFetch,       \* AnalyzePage: the getProjects request is in flight
    aReq,         \* AnalyzePage: NoProject or the project of the analyze request in flight
    rLoading,     \* ReportsPage: loading
    rProjects,    \* ReportsPage: projects (ids of the filtered list)
    rHasReports,  \* ReportsPage: the listed projects whose has_reports was true
    generating,
    generatingCard,
    datasetCards, \* ReportsPage: projects a dataset card is held for
    rFetch,       \* ReportsPage: getProjects requests in flight, each with the
                  \* generateReports call awaiting it (NoProject: the mount effect)
    genReq,       \* ReportsPage: projects with a generateReports request in flight
    cardReq,      \* ReportsPage: projects with a generateDatasetCard request in flight
    anomalies,    \* AnomalyTimeline props: frame_index of each anomaly
    totalFrames,  \* AnomalyTimeline props
    markers,      \* AnomalyTimeline output: "unrendered", "null" or the marker positions
    activities,   \* ActivityTrack props: the activities, in array order
    trackFrames,  \* ActivityTrack props: totalFrames
    track,        \* ActivityTrack output: "unrendered", "null" or the bands and the legend
    toasts,       \* ToastProvider: toasts, each with its id and the addToast call it is from
    toastTimers,  \* ToastProvider: pending auto-remove timers, each with the id it closes over
    nToasts       \* addToast calls so far

annotateVars == <<version, mounted, file, projectId, uploading, segmenting, status,
                  stats, progress, uploadReq, nRuns, loop, statusData>>
apiVars == <<apiLast>>
analyzeVars == <<aLoading, aProjects, selectedProject, analyzing, analysis, aData,
                 aFetch, aReq>>
reportsVars == <<rLoading, rProjects, rHasReports, generating, generatingCard,
                 datasetCards, rFetch, genReq, cardReq>>
timelineVars == <<anomalies, totalFrames, markers>>
activityVars == <<activities, trackFrames, track>>
toastVars == <<toasts, toastTimers, nToasts>>

vars == <<annotateVars, srv, apiVars, analyzeVars, reportsVars, timelineVars,
          activityVars, toastVars>>

\* What the actions of one component leave alone.
offAnnotate == <<apiVars, analyzeVars, reportsVars, timelineVars, activityVars,
                toastVars>>
offApi == <<annotateVars, analyzeVars, reportsVars, timelineVars, activityVars,
                toastVars>>
offAnalyze == <<annotateVars, apiVars, reportsVars, timelineVars, activityVars,
                toastVars>>
offReports == <<annotateVars, apiVars, analyzeVars, timelineVars, activityVars,
                toastVars>>
offTimeline == <<annotateVars, srv, apiVars, analyzeVars, reportsVars, activityVars,
                toastVars>>
offActivity == <<annotateVars, srv, apiVars, analyzeVars, reportsVars, timelineVars,
                toastVars>>
offToast == <<annotateVars, srv, apiVars, analyzeVars, reportsVars, timelineVars,
             activityVars>>

\* ------------------------------------------------ project registry (backend)
\* exists: the project was created by an accepted upload.  jobs: segmentation
\* jobs in flight.  seg: the segmentation stage (none, running, done, failed).
NoRecord ==
    [exists |-> FALSE, jobs |-> 0, seg |-> "none", has_segmentation |-> FALSE,
     has_analysis |-> FALSE, has_reports |-> FALSE]

\* The first unused project id, NoProject when the registry is full.
FreeId ==
    IF \E p \in ProjectIds : ~srv[p].exists
    THEN CHOOSE p \in ProjectIds :
            ~srv[p].exists /\ \A q \in ProjectIds : q < p => srv[q].exists
    ELSE NoProject

\* Upload accepted: a project is created in state uploaded, all flags false.
SrvCreateProject(p) ==
    [srv EXCEPT ![p] = [NoRecord EXCEPT !.exists = TRUE]]

Known(p) == p \in ProjectIds /\ srv[p].exists

\* The answer of the registry to a start-segmentation submission for p.
SrvSegmentGate(p) ==
    IF ~Known(p) THEN "NotFound"
    ELSE IF srv[p].jobs > 0 THEN "ConflictError"
    ELSE IF srv[p].seg = "failed" THEN "InvalidState"
    ELSE "ok"

\* An accepted start-segmentation: the job is in flight; flags are left alone.
SrvStartSegmentation(p) ==
    [srv EXCEPT ![p].seg = "running", ![p].jobs = @ + 1]

\* A status read that hands a result out once: a read that follows a read
\* finds the record cleared and reports the job as still processing.
SrvStatusOf_ReadOnce(p) ==
    IF apiLast.op = "status" THEN "processing"
    ELSE CASE srv[p].seg = "none" -> "uploaded"
           [] srv[p].seg = "running" -> "processing"
           [] srv[p].seg = "done" -> "segmented"
           [] srv[p].seg = "failed" -> "failed"

\* The status string a status read returns.
SrvStatusOf(p) ==
    CASE srv[p].seg = "none" -> "uploaded"
      [] srv[p].seg = "running" -> "processing"
      [] srv[p].seg = "done" -> "segmented"
      [] srv[p].seg = "failed" -> "failed"

\* Stats of a project: present once a segmentation job has completed.
StatsOf(p) == p

\* The analysis gate without the has_segmentation check.
SrvAnalyzeGate_NoGate(p) ==
    IF ~Known(p) THEN "NotFound" ELSE "ok"

\* The answer of the registry to a start-analysis submission for p.
SrvAnalyzeGate(p) ==
    IF ~Known(p) THEN "NotFound"
    ELSE IF ~srv[p].has_segmentation THEN "InvalidState"
    ELSE "ok"

\* A completed analysis.
SrvAnalyzed(p) ==
    [srv EXCEPT ![p].has_analysis = TRUE]

\* The answer of the registry to generate-reports and generate-dataset-card.
SrvReportGate(p) ==
    IF ~Known(p) THEN "NotFound"
    ELSE IF ~srv[p].has_analysis THEN "InvalidState"
    ELSE "ok"

\* Report artifacts generated.
SrvReported(p) ==
    [srv EXCEPT ![p].has_reports = TRUE]

\* ApiClient.getProjects: the projects the registry lists.
getProjects == {p \in ProjectIds : srv[p].exists}

\* The segmentation engine finishes a job of p.
JobComplete(p) ==
    /\ srv[p].exists /\ srv[p].jobs > 0
    /\ srv' = [srv EXCEPT ![p].seg = IF srv[p].jobs = 1 THEN "done" ELSE @,
                          ![p].jobs = @ - 1,
                          ![p].has_segmentation = TRUE]
    /\ UNCHANGED <<annotateVars, offAnnotate>>

\* The segmentation engine reports a job of p failed.
JobFail(p) ==
    /\ srv[p].exists /\ srv[p].jobs > 0
    /\ srv' = [srv EXCEPT ![p].seg = IF srv[p].jobs = 1 THEN "failed" ELSE @,
                          ![p].jobs = @ - 1]
    /\ UNCHANGED <<annotateVars, offAnnotate>>

\* ------------------------------------------------------------ annotate page
\* The button as it would be without the idle check.
UploadDisabled_NoIdle == ~file \/ uploading

\* disabled={!file || uploading || status !== "idle"}
UploadDisabled == ~file \/ uploading \/ status # "idle"

\* The button never disabled.
SampleDisabled_Never == FALSE

\* disabled={uploading || status !== "idle"}
SampleDisabled == uploading \/ status # "idle"

\* The button never disabled.
SegmentDisabled_Never == FALSE

\* The button as it would be without the busy flag.
SegmentDisabled_NoBusy == status = "segmented"

\* The button as it would be without the completed check.
SegmentDisabled_NoDone == segmenting

\* disabled={segmenting || status === "segmented"}
SegmentDisabled == segmenting \/ status = "segmented"

\* The Start Segmentation button can be pressed: its card is rendered only
\* when projectId is set ({projectId && ...}, and the guard of handleSegment).
CanSegment == projectId # NoProject /\ ~SegmentDisabled

handleFileChange ==
    /\ mounted /\ ~file
    /\ file' = TRUE
    /\ UNCHANGED <<version, mounted, projectId, uploading, segmenting, status, stats,
                   progress, uploadReq, nRuns, loop, statusData, srv, offAnnotate>>

handleUpload ==
    /\ mounted /\ ~UploadDisabled
    /\ file
    /\ uploading' = TRUE
    /\ status' = "uploading"
    /\ uploadReq' = "upload"
    /\ UNCHANGED <<version, mounted, file, projectId, segmenting, stats, progress,
                   nRuns, loop, statusData, srv, offAnnotate>>

handleSampleVideo ==
    /\ version = "v2"
    /\ mounted /\ ~SampleDisabled
    /\ uploading' = TRUE
    /\ status' = "uploading"
    /\ uploadReq' = "sample"
    /\ UNCHANGED <<version, mounted, file, projectId, segmenting, stats, progress,
                   nRuns, loop, statusData, srv, offAnnotate>>

\* The upload (or sample) request settles: accepted with a new project id, or
\* thrown (validation, upstream or network error).
UploadSettle ==
    /\ uploadReq # "none"
    /\ \/ /\ FreeId # NoProject
          /\ srv' = SrvCreateProject(FreeId)
          /\ projectId' = FreeId
          /\ status' = "uploaded"
       \/ /\ status' = "error"
          /\ UNCHANGED <<projectId, srv>>
    /\ uploading' = FALSE
    /\ uploadReq' = "none"
    /\ UNCHANGED <<version, mounted, file, segmenting, stats, progress, nRuns, loop,
                   statusData, offAnnotate>>

\* The next run of handleSegment.
NextRun == nRuns + 1

\* handleSegment up to the await of the start-segmentation request.
handleSegment ==
    /\ mounted /\ CanSegment
    /\ nRuns < MaxRuns
    /\ segmenting' = TRUE
    /\ status' = "segmenting"
    /\ nRuns' = NextRun
    /\ loop' = [loop EXCEPT ![NextRun] = "starting"]
    /\ UNCHANGED <<version, mounted, file, projectId, uploading, stats, progress,
                   uploadReq, statusData, srv, offAnnotate>>

\* The start-segmentation request is accepted: setTimeout(pollStatus, 3000).
SegmentAccepted(r) ==
    /\ loop[r] = "starting"
    /\ SrvSegmentGate(projectId) = "ok"
    /\ srv[projectId].jobs < MaxJobs
    /\ srv' = SrvStartSegmentation(projectId)
    /\ loop' = [loop EXCEPT ![r] = "timer"]
    /\ UNCHANGED <<version, mounted, file, projectId, uploading, segmenting, status,
                   stats, progress, uploadReq, nRuns, statusData, offAnnotate>>

\* Why a start-segmentation request can throw: the answer of the registry
\* when it is not ok, a rejection by the engine, or a network error.
SegmentErrors ==
    {"UpstreamError", "NetworkError"} \cup
    (IF SrvSegmentGate(projectId) = "ok" THEN {} ELSE {SrvSegmentGate(projectId)})

\* The outer catch of handleSegment, on error e.
SegmentCatch(r, e) ==
    /\ status' = "error"
    /\ segmenting' = FALSE
    /\ loop' = [loop EXCEPT ![r] = e]
    /\ UNCHANGED <<version, mounted, file, projectId, uploading, stats, progress,
                   uploadReq, nRuns, statusData, offAnnotate>>

\* The start-segmentation request throws.
SegmentRejected(r) ==
    /\ loop[r] = "starting"
    /\ \E e \in SegmentErrors : SegmentCatch(r, e)
    /\ UNCHANGED srv

\* The submission is accepted by the registry and the response is lost on the
\* way back: the request throws although the job runs.
SegmentResponseLost(r) ==
    /\ loop[r] = "starting"
    /\ SrvSegmentGate(projectId) = "ok"
    /\ srv[projectId].jobs < MaxJobs
    /\ srv' = SrvStartSegmentation(projectId)
    /\ SegmentCatch(r, "NetworkError")

\* The poll timer of run r fires: pollStatus issues the status request.
pollTimerFires(r) ==
    /\ loop[r] = "timer"
    /\ loop' = [loop EXCEPT ![r] = "reading"]
    /\ UNCHANGED <<version, mounted, file, projectId, uploading, segmenting, status,
                   stats, progress, uploadReq, nRuns, statusData, srv, offAnnotate>>

NoData == [status |-> "none", progress |-> 0, stats |-> NoStats]

\* The status read returns: the status of the project, an advisory progress
\* value and, once segmented, the stats.
StatusResponse(r) ==
    /\ loop[r] = "reading"
    /\ \E pr \in ProgressValues :
          statusData' = [statusData EXCEPT ![r] =
              [status |-> SrvStatusOf(projectId), progress |-> pr,
               stats |-> IF srv[projectId].seg = "done"
                         THEN StatsOf(projectId) ELSE NoStats]]
    /\ loop' = [loop EXCEPT ![r] = "got"]
    /\ UNCHANGED <<version, mounted, file, projectId, uploading, segmenting, status,
                   stats, progress, uploadReq, nRuns, srv, offAnnotate>>

\* The status request throws.  v2: the catch of pollStatus ends the loop with
\* status error.  v1: pollStatus has no catch; the rejection ends the loop and
\* no state is set.
StatusThrows(r) ==
    /\ loop[r] = "reading"
    /\ IF version = "v2"
       THEN /\ status' = "error"
            /\ segmenting' = FALSE
            /\ loop' = [loop EXCEPT ![r] = "error"]
       ELSE /\ loop' = [loop EXCEPT ![r] = "crashed"]
            /\ UNCHANGED <<status, segmenting>>
    /\ UNCHANGED <<version, mounted, file, projectId, uploading, stats, progress,
                   uploadReq, nRuns, statusData, srv, offAnnotate>>

\* if (statusData.progress) setProgress(statusData.progress)   (v2 only)
ProgressAfterRead(d) ==
    IF version = "v2" /\ d.progress # 0 THEN d.progress ELSE progress

\* pollStatus without its failed branch: a failed job is polled again.
LoopAfterRead_PollOnFailed(d) ==
    IF d.status = "segmented" THEN "done" ELSE "timer"

\* pollStatus without its else branch: a pending job is not polled again.
LoopAfterRead_NoReschedule(d) ==
    IF d.status = "failed" THEN "failed" ELSE "done"

\* pollStatus rescheduling itself whatever the status.
LoopAfterRead_PollForever(d) == "timer"

\* What pollStatus does with the loop on response d: stop on a terminal
\* status, otherwise setTimeout(pollStatus, ...).
LoopAfterRead(d) ==
    IF d.status = "segmented" THEN "done"
    ELSE IF d.status = "failed" THEN "failed"
    ELSE "timer"

\* pollStatus after the await, on the response of run r.
pollStatus(r) ==
    /\ loop[r] = "got"
    /\ LET d == statusData[r] IN
       /\ loop' = [loop EXCEPT ![r] = LoopAfterRead(d)]
       /\ IF d.status = "segmented"
          THEN /\ stats' = d.stats
               /\ status' = "segmented"
               /\ segmenting' = FALSE
               /\ progress' = IF version = "v2" THEN 100 ELSE progress
          ELSE IF d.status = "failed"
          THEN /\ status' = "error"
               /\ segmenting' = FALSE
               /\ progress' = ProgressAfterRead(d)
               /\ UNCHANGED stats
          ELSE /\ progress' = ProgressAfterRead(d)
               /\ UNCHANGED <<stats, status, segmenting>>
    /\ statusData' = [statusData EXCEPT ![r] = NoData]
    /\ UNCHANGED <<version, mounted, file, projectId, uploading, uploadReq, nRuns, srv,
                   offAnnotate>>

\* The consumer navigates away: the component unmounts.  The page registers
\* no cleanup, so timers and requests of a running loop are left as they are.
Unmount ==
    /\ mounted
    /\ mounted' = FALSE
    /\ UNCHANGED <<version, file, projectId, uploading, segmenting, status, stats,
                   progress, uploadReq, nRuns, loop, statusData, srv, offAnnotate>>

\* ------------------------------------------------- ApiClient, called directly
NoCall == [op |-> "none", p |-> NoProject, res |-> "none"]

\* api.uploadVideo(file)
ApiUploadVideo ==
    /\ FreeId # NoProject
    /\ srv' = SrvCreateProject(FreeId)
    /\ apiLast' = [op |-> "upload", p |-> FreeId, res |-> "ok"]
    /\ UNCHANGED offApi

\* api.startSegmentation(p)
ApiStartSegmentation(p) ==
    /\ IF SrvSegmentGate(p) = "ok"
       THEN srv[p].jobs < MaxJobs /\ srv' = SrvStartSegmentation(p)
       ELSE UNCHANGED srv
    /\ apiLast' = [op |-> "segment", p |-> p, res |-> SrvSegmentGate(p)]
    /\ UNCHANGED offApi

\* api.getSegmentationStatus(p): a GET; the answer carries the status and,
\* once segmented, the stats.  The registry is only read.  call tells a read
\* from the read before it.
ApiGetSegmentationStatus(p) ==
    /\ LET call == IF apiLast.op = "status" /\ apiLast.call = "odd"
                   THEN "even" ELSE "odd"
       IN apiLast' = IF Known(p)
                     THEN [op |-> "status", p |-> p, res |-> SrvStatusOf(p),
                           stats |-> IF srv[p].seg = "done"
                                     THEN StatsOf(p) ELSE NoStats,
                           call |-> call]
                     ELSE [op |-> "status", p |-> p, res |-> "NotFound",
                           stats |-> NoStats, call |-> call]
    /\ UNCHANGED <<srv, offApi>>

\* api.analyzeVideo(p, analysisType, model)
ApiAnalyzeVideo(p) ==
    /\ srv' = IF SrvAnalyzeGate(p) = "ok" THEN SrvAnalyzed(p) ELSE srv
    /\ apiLast' = [op |-> "analyze", p |-> p, res |-> SrvAnalyzeGate(p)]
    /\ UNCHANGED offApi

\* api.generateReports(p)
ApiGenerateReports(p) ==
    /\ srv' = IF SrvReportGate(p) = "ok" THEN SrvReported(p) ELSE srv
    /\ apiLast' = [op |-> "reports", p |-> p, res |-> SrvReportGate(p)]
    /\ UNCHANGED offApi

\* api.generateDatasetCard(p)
ApiGenerateDatasetCard(p) ==
    /\ apiLast' = [op |-> "card", p |-> p, res |-> SrvReportGate(p)]
    /\ UNCHANGED <<srv, offApi>>

\* ------------------------------------------------------------- analyze page
\* fetchProjects settles: setProjects(data.filter((p) => p.has_segmentation)),
\* or the catch; finally setLoading(false).
\* fetchProjects without its filter.
HasSegmentation_NoFilter(p) == TRUE

HasSegmentation(p) == srv[p].has_segmentation

AnalyzeFetchSettle ==
    /\ aFetch
    /\ \/ aProjects' = {p \in getProjects : HasSegmentation(p)}
       \/ UNCHANGED aProjects
    /\ aLoading' = FALSE
    /\ aFetch' = FALSE
    /\ UNCHANGED <<selectedProject, analyzing, analysis, aData, aReq, srv, offAnalyze>>

\* onChange of the project select: one of the listed options, or the empty one.
setSelectedProject(p) ==
    /\ ~aLoading
    /\ p \in aProjects \cup {NoProject}
    /\ p # selectedProject
    /\ selectedProject' = p
    /\ UNCHANGED <<aLoading, aProjects, analyzing, analysis, aData, aFetch, aReq, srv,
                   offAnalyze>>

\* disabled={!selectedProject || analyzing}
AnalyzeDisabled == selectedProject = NoProject \/ analyzing

handleAnalyze ==
    /\ ~AnalyzeDisabled
    /\ selectedProject # NoProject
    /\ analyzing' = TRUE
    /\ aReq' = selectedProject
    /\ UNCHANGED <<aLoading, aProjects, selectedProject, analysis, aData, aFetch, srv,
                   offAnalyze>>

\* replaced: an analysis was held when the response arrived.
NoResponse == [outcome |-> "none", analysis |-> NoAnalysis, replaced |-> FALSE]

\* The new analysis laid over the held one: a field the new one lacks keeps
\* its previous value.
setAnalysis_Merged(prev, new) ==
    [f \in DOMAIN new |->
        IF new[f] = "absent" /\ prev # NoAnalysis THEN prev[f] ELSE new[f]]

\* setAnalysis(data.analysis): the state is the value passed.
setAnalysis(prev, new) == new

\* The analyze request settles, with a catch that drops the held analysis.
AnalyzeSettle_CatchClears ==
    /\ aReq # NoProject
    /\ \/ /\ SrvAnalyzeGate(aReq) = "ok"
          /\ srv' = SrvAnalyzed(aReq)
          /\ \E a \in AnalysisResults :
                /\ aData' = [outcome |-> "resolved", analysis |-> a,
                             replaced |-> analysis # NoAnalysis]
                /\ analysis' = setAnalysis(analysis, a)
       \/ /\ aData' = [outcome |-> "thrown", analysis |-> NoAnalysis,
                       replaced |-> FALSE]
          /\ analysis' = NoAnalysis
          /\ UNCHANGED srv
    /\ analyzing' = FALSE
    /\ aReq' = NoProject
    /\ UNCHANGED <<aLoading, aProjects, selectedProject, aFetch, offAnalyze>>

\* The analyze request settles: setAnalysis(data.analysis), or the catch;
\* finally setAnalyzing(false).
AnalyzeSettle ==
    /\ aReq # NoProject
    /\ \/ /\ SrvAnalyzeGate(aReq) = "ok"
          /\ srv' = SrvAnalyzed(aReq)
          /\ \E a \in AnalysisResults :
                /\ aData' = [outcome |-> "resolved", analysis |-> a,
                             replaced |-> analysis # NoAnalysis]
                /\ analysis' = setAnalysis(analysis, a)
       \/ /\ aData' = [outcome |-> "thrown", analysis |-> NoAnalysis,
                       replaced |-> FALSE]
          /\ UNCHANGED <<analysis, srv>>
    /\ analyzing' = FALSE
    /\ aReq' = NoProject
    /\ UNCHANGED <<aLoading, aProjects, selectedProject, aFetch, offAnalyze>>

\* ------------------------------------------------------------- reports page
\* fetchProjects without its filter.
HasAnalysis_NoFilter(p) == TRUE

HasAnalysis(p) == srv[p].has_analysis
HasReports(p) == srv[p].has_analysis /\ srv[p].has_reports

\* fetchProjects settles: setProjects(data.filter((p) => p.has_analysis)), or
\* the catch; finally setLoading(false).  c is the handleGenerateReports call
\* awaiting it (its finally: setGenerating(null)), NoProject for the mount effect.
ReportsFetchSettle(c) ==
    /\ c \in rFetch
    /\ \/ /\ rProjects' = {p \in getProjects : HasAnalysis(p)}
          /\ rHasReports' = {p \in getProjects : HasReports(p)}
       \/ UNCHANGED <<rProjects, rHasReports>>
    /\ rLoading' = FALSE
    /\ rFetch' = rFetch \ {c}
    /\ generating' = IF c = NoProject THEN generating ELSE NoProject
    /\ UNCHANGED <<generatingCard, datasetCards, genReq, cardReq, srv, offReports>>

\* The list is rendered when loading is false; a project without reports
\* shows the Generate Reports button, disabled={generating === project_id}.
CanGenerateReports(p) ==
    ~rLoading /\ p \in rProjects /\ p \notin rHasReports /\ generating # p

handleGenerateReports(p) ==
    /\ CanGenerateReports(p)
    /\ p \notin genReq /\ p \notin rFetch
    /\ generating' = p
    /\ genReq' = genReq \cup {p}
    /\ UNCHANGED <<rLoading, rProjects, rHasReports, generatingCard, datasetCards,
                   rFetch, cardReq, srv, offReports>>

\* generateReports resolved: await fetchProjects() (setLoading(true)).
GenerateReportsDone(p) ==
    /\ p \in genReq
    /\ SrvReportGate(p) = "ok"
    /\ srv' = SrvReported(p)
    /\ genReq' = genReq \ {p}
    /\ rLoading' = TRUE
    /\ rFetch' = rFetch \cup {p}
    /\ UNCHANGED <<rProjects, rHasReports, generating, generatingCard, datasetCards,
                   cardReq, offReports>>

\* generateReports threw and the handler has no finally: generating stays.
GenerateReportsThrows_NoFinally(p) ==
    /\ p \in genReq
    /\ genReq' = genReq \ {p}
    /\ UNCHANGED <<rLoading, rProjects, rHasReports, generating, generatingCard,
                   datasetCards, rFetch, cardReq, srv, offReports>>

\* generateReports threw: the catch; finally setGenerating(null).
GenerateReportsThrows(p) ==
    /\ p \in genReq
    /\ genReq' = genReq \ {p}
    /\ generating' = NoProject
    /\ UNCHANGED <<rLoading, rProjects, rHasReports, generatingCard, datasetCards,
                   rFetch, cardReq, srv, offReports>>

\* The Dataset Card button as it would be inside the has_reports branch.
CanGenerateCard_NeedsReports(p) ==
    ~rLoading /\ p \in rProjects /\ p \in rHasReports /\ p \notin datasetCards
        /\ generatingCard # p

\* The Dataset Card button: shown while no card is held for the project,
\* disabled={generatingCard === project_id}.
CanGenerateCard(p) ==
    ~rLoading /\ p \in rProjects /\ p \notin datasetCards /\ generatingCard # p

handleGenerateDatasetCard(p) ==
    /\ CanGenerateCard(p)
    /\ p \notin cardReq
    /\ generatingCard' = p
    /\ cardReq' = cardReq \cup {p}
    /\ UNCHANGED <<rLoading, rProjects, rHasReports, generating, datasetCards,
                   rFetch, genReq, srv, offReports>>

\* generateDatasetCard settles: the card is stored, or the catch; finally
\* setGeneratingCard(null).
CardSettle(p) ==
    /\ p \in cardReq
    /\ \/ SrvReportGate(p) = "ok" /\ datasetCards' = datasetCards \cup {p}
       \/ UNCHANGED datasetCards
    /\ cardReq' = cardReq \ {p}
    /\ generatingCard' = NoProject
    /\ UNCHANGED <<rLoading, rProjects, rHasReports, generating, rFetch, genReq, srv,
                   offReports>>

\* --------------------------------------------------------- anomaly timeline
\* Frame numbers and frame counts the timeline is rendered with.
FrameValues == (0..MaxFrame) \cup {50, 100, 101}
TotalValues == (-1..MaxFrame) \cup {100, 1000}

\* Sequences over S of length at most n.
SeqsUpTo(S, n) == UNION {[1..k -> S] : k \in 0..n}

\* The position without the scaling to a percentage.
Position_NoPercent(frame_index, total) == [num |-> frame_index, den |-> total]

\* const position = (anomaly.frame_index / totalFrames) * 100: the percentage,
\* kept as the quotient num / den (den = 0: the division gave Infinity or NaN).
Position(frame_index, total) == [num |-> frame_index * 100, den |-> total]

\* anomalies.map(...): one marker per anomaly, in array order.
AnomalyMarkers(as, total) == [i \in 1..Len(as) |-> Position(as[i], total)]

Unrendered == [state |-> "unrendered", list |-> <<>>]

\* AnomalyTimeline({ anomalies, totalFrames })
AnomalyTimeline ==
    /\ markers.state = "unrendered"
    /\ markers' = IF Len(anomalies) = 0
                  THEN [state |-> "null", list |-> <<>>]
                  ELSE [state |-> "rendered",
                        list |-> AnomalyMarkers(anomalies, totalFrames)]
    /\ UNCHANGED <<anomalies, totalFrames, offTimeline>>

\* ----------------------------------------------------------- activity track
\* Labels an activity can carry.
Labels == {"High Congestion", "Light Congestion", "Moderate", "Light", "high"}

\* Frame ranges an activity can cover, and frame counts the track is
\* rendered with.
ActivityRanges == {<<0, 25>>, <<25, 100>>, <<0, 100>>}
TrackFrameValues == {50, 100}

Activities ==
    {[start_frame |-> rg[1], end_frame |-> rg[2], label |-> l] :
        rg \in ActivityRanges, l \in Labels}

\* label.includes(key): key occurs in label as a substring, case-sensitively.
includes(label, key) ==
    \E i \in 1..(Len(label) - Len(key) + 1) :
        SubSeq(label, i, i + Len(key) - 1) = key

\* getColor with the tests in the opposite order.
getColor_LowFirst(label) ==
    IF includes(label, "Light") THEN "bg-green-500"
    ELSE IF includes(label, "Moderate") THEN "bg-yellow-500"
    ELSE IF includes(label, "High") \/ includes(label, "Congestion") THEN "bg-red-500"
    ELSE "bg-gray-400"

getColor(label) ==
    IF includes(label, "High") \/ includes(label, "Congestion") THEN "bg-red-500"
    ELSE IF includes(label, "Moderate") THEN "bg-yellow-500"
    ELSE IF includes(label, "Light") THEN "bg-green-500"
    ELSE "bg-gray-400"

\* The width clamped to the whole track.
Width_Clamped(activity, total) ==
    LET n == (activity.end_frame - activity.start_frame) * 100 IN
    [num |-> IF n > 100 * total THEN 100 * total ELSE n, den |-> total]

\* const width = ((activity.end_frame - activity.start_frame) / totalFrames) * 100:
\* the percentage, kept as the quotient num / den.
Width(activity, total) ==
    [num |-> (activity.end_frame - activity.start_frame) * 100, den |-> total]

\* activities.map(...): one band per activity, in array order.
Bands(acts, total) ==
    [i \in 1..Len(acts) |->
        [width |-> Width(acts[i], total), color |-> getColor(acts[i].label),
         label |-> acts[i].label]]

\* The labels without the Set: one entry per activity.
DistinctLabels_NoSet(acts) == [i \in 1..Len(acts) |-> acts[i].label]

\* Array.from(new Set(activities.map(a => a.label))): a Set keeps insertion
\* order, so each label stays at the place of its first occurrence.
RECURSIVE DistinctLabels(_)
DistinctLabels(acts) ==
    IF acts = <<>> THEN <<>>
    ELSE LET front == SubSeq(acts, 1, Len(acts) - 1)
             last == acts[Len(acts)].label
         IN IF \E i \in 1..Len(front) : front[i].label = last
            THEN DistinctLabels(front)
            ELSE Append(DistinctLabels(front), last)

\* The legend: one entry per distinct label, coloured by getColor.
Legend(acts) ==
    LET ls == DistinctLabels(acts) IN
    [i \in 1..Len(ls) |-> [label |-> ls[i], color |-> getColor(ls[i])]]

NoTrack == [state |-> "unrendered", bands |-> <<>>, legend |-> <<>>]

\* ActivityTrack({ activities, totalFrames })
ActivityTrack ==
    /\ track.state = "unrendered"
    /\ track' = IF Len(activities) = 0
                THEN [state |-> "null", bands |-> <<>>, legend |-> <<>>]
                ELSE [state |-> "rendered",
                      bands |-> Bands(activities, trackFrames),
                      legend |-> Legend(activities)]
    /\ UNCHANGED <<activities, trackFrames, offActivity>>

\* -------------------------------------------------------------------- toasts
\* Ids Math.random().toString(36).substr(2, 9) can give: nothing makes two
\* calls give different ones.
ToastIds == {"k3x", "q7m"}

\* prev.filter((t) => t.id !== id)
RECURSIVE FilterOut(_, _)
FilterOut(list, id) ==
    IF list = <<>> THEN <<>>
    ELSE IF list[1].id = id THEN FilterOut(Tail(list), id)
    ELSE <<list[1]>> \o FilterOut(Tail(list), id)

\* addToast(toast): the toast is appended under a random id and its
\* auto-remove timer is set.
addToast ==
    /\ nToasts < MaxToasts
    /\ \E id \in ToastIds :
          /\ toasts' = Append(toasts, [id |-> id, call |-> nToasts + 1])
          /\ toastTimers' = toastTimers \cup {[id |-> id, call |-> nToasts + 1]}
    /\ nToasts' = nToasts + 1
    /\ UNCHANGED offToast

\* removeToast(id), from the close button of a toast shown.
removeToast(id) ==
    /\ \E i \in 1..Len(toasts) : toasts[i].id = id
    /\ toasts' = FilterOut(toasts, id)
    /\ UNCHANGED <<toastTimers, nToasts, offToast>>

\* The auto-remove timer t fires, 5000 ms after its addToast.
toastTimerFires(t) ==
    /\ t \in toastTimers
    /\ toasts' = FilterOut(toasts, t.id)
    /\ toastTimers' = toastTimers \ {t}
    /\ UNCHANGED <<nToasts, offToast>>

\* ------------------------------------------------------------ specifications
AnnotateInit ==
    /\ mounted = TRUE
    /\ file = FALSE
    /\ projectId = NoProject
    /\ uploading = FALSE
    /\ segmenting = FALSE
    /\ status = "idle"
    /\ stats = NoStats
    /\ progress = 0
    /\ uploadReq = "none"
    /\ nRuns = 0
    /\ loop = [r \in Runs |-> "idle"]
    /\ statusData = [r \in Runs |-> NoData]

\* The analyze page after its mount effect: fetchProjects is in flight.
AnalyzeInit ==
    /\ aLoading = TRUE
    /\ aProjects = {}
    /\ selectedProject = NoProject
    /\ analyzing = FALSE
    /\ analysis = NoAnalysis
    /\ aData = NoResponse
    /\ aFetch = TRUE
    /\ aReq = NoProject

\* The reports page after its mount effect: fetchProjects is in flight.
ReportsInit ==
    /\ rLoading = TRUE
    /\ rProjects = {}
    /\ rHasReports = {}
    /\ generating = NoProject
    /\ generatingCard = NoProject
    /\ datasetCards = {}
    /\ rFetch = {NoProject}
    /\ genReq = {}
    /\ cardReq = {}

TimelineIdle ==
    /\ anomalies = <<>>
    /\ totalFrames = 1000
    /\ markers = Unrendered

ActivityIdle ==
    /\ activities = <<>>
    /\ trackFrames = 1000
    /\ track = NoTrack

\* useState<ToastProps[]>([])
ToastInit ==
    /\ toasts = <<>>
    /\ toastTimers = {}
    /\ nToasts = 0

EmptyRegistry == [p \in ProjectIds |-> NoRecord]

\* Records a project can have between requests when no segmentation job is in
\* flight: the stage outcome and the flags the pipeline can have produced.
SettledRecords ==
    {NoRecord} \cup
    {[exists |-> TRUE, jobs |-> 0, seg |-> sg, has_segmentation |-> hs,
      has_analysis |-> ha, has_reports |-> hr] :
        sg \in {"none", "done", "failed"}, hs \in BOOLEAN, ha \in BOOLEAN,
        hr \in BOOLEAN}

ValidRecord(rec) ==
    /\ rec.has_analysis => rec.has_segmentation
    /\ rec.has_reports => rec.has_analysis
    /\ rec.seg = "none" => ~rec.has_segmentation
    /\ rec.seg = "done" => rec.has_segmentation

\* Registries with ids handed out in order.
SettledRegistries ==
    {reg \in [ProjectIds -> SettledRecords] :
        /\ \A p \in ProjectIds : ValidRecord(reg[p])
        /\ \A p, q \in ProjectIds : (p < q /\ reg[q].exists) => reg[p].exists}

\* The annotate page (either version) against the registry and the engine.
Init ==
    /\ version \in {"v1", "v2"}
    /\ AnnotateInit /\ AnalyzeInit /\ ReportsInit /\ TimelineIdle /\ ActivityIdle /\ ToastInit
    /\ apiLast = NoCall
    /\ srv = EmptyRegistry

Next ==
    \/ handleFileChange
    \/ handleUpload
    \/ handleSampleVideo
    \/ UploadSettle
    \/ handleSegment
    \/ \E r \in Runs : SegmentAccepted(r)
    \/ \E r \in Runs : SegmentRejected(r)
    \/ \E r \in Runs : SegmentResponseLost(r)
    \/ \E r \in Runs : pollTimerFires(r)
    \/ \E r \in Runs : StatusResponse(r)
    \/ \E r \in Runs : StatusThrows(r)
    \/ \E r \in Runs : pollStatus(r)
    \/ \E p \in ProjectIds : JobComplete(p)
    \/ \E p \in ProjectIds : JobFail(p)
    \/ Unmount

Spec == Init /\ [][Next]_vars

\* The annotate page when no status request errors, every timer fires, every
\* request is answered, every continuation runs and the engine ends every job.
PollNext ==
    \/ handleFileChange
    \/ handleUpload
    \/ handleSampleVideo
    \/ UploadSettle
    \/ handleSegment
    \/ \E r \in Runs : SegmentAccepted(r)
    \/ \E r \in Runs : SegmentRejected(r)
    \/ \E r \in Runs : SegmentResponseLost(r)
    \/ \E r \in Runs : pollTimerFires(r)
    \/ \E r \in Runs : StatusResponse(r)
    \/ \E r \in Runs : pollStatus(r)
    \/ \E p \in ProjectIds : JobComplete(p)
    \/ \E p \in ProjectIds : JobFail(p)
    \/ Unmount

PollFairness ==
    /\ \A r \in Runs : WF_vars(pollTimerFires(r))
    /\ \A r \in Runs : WF_vars(StatusResponse(r))
    /\ \A r \in Runs : WF_vars(pollStatus(r))
    /\ \A p \in ProjectIds : WF_vars(JobComplete(p) \/ JobFail(p))

SpecPoll == Init /\ [][PollNext]_vars /\ PollFairness

\* The ApiClient called directly against the registry and the engine.
ApiInit ==
    /\ version = "v2"
    /\ AnnotateInit /\ AnalyzeInit /\ ReportsInit /\ TimelineIdle /\ ActivityIdle /\ ToastInit
    /\ apiLast = NoCall
    /\ srv = EmptyRegistry

ApiNext ==
    \/ ApiUploadVideo
    \/ \E p \in ProjectIds : ApiStartSegmentation(p)
    \/ \E p \in ProjectIds : ApiGetSegmentationStatus(p)
    \/ \E p \in ProjectIds : ApiAnalyzeVideo(p)
    \/ \E p \in ProjectIds : ApiGenerateReports(p)
    \/ \E p \in ProjectIds : ApiGenerateDatasetCard(p)
    \/ \E p \in ProjectIds : JobComplete(p)
    \/ \E p \in ProjectIds : JobFail(p)

SpecApi == ApiInit /\ [][ApiNext]_vars

\* Settled registries in which no segmentation has failed: every project is
\* uploaded or segmented.
CompletedRegistries ==
    {reg \in SettledRegistries : \A p \in ProjectIds : reg[p].seg # "failed"}

\* A page that is not mounted: no request in flight, nothing to press.
AnnotateUnmounted ==
    /\ mounted = FALSE
    /\ file = FALSE
    /\ projectId = NoProject
    /\ uploading = FALSE
    /\ segmenting = FALSE
    /\ status = "idle"
    /\ stats = NoStats
    /\ progress = 0
    /\ uploadReq = "none"
    /\ nRuns = 0
    /\ loop = [r \in Runs |-> "idle"]
    /\ statusData = [r \in Runs |-> NoData]

AnalyzeUnmounted ==
    /\ aLoading = TRUE
    /\ aProjects = {}
    /\ selectedProject = NoProject
    /\ analyzing = FALSE
    /\ analysis = NoAnalysis
    /\ aData = NoResponse
    /\ aFetch = FALSE
    /\ aReq = NoProject

ReportsUnmounted ==
    /\ rLoading = TRUE
    /\ rProjects = {}
    /\ rHasReports = {}
    /\ generating = NoProject
    /\ generatingCard = NoProject
    /\ datasetCards = {}
    /\ rFetch = {}
    /\ genReq = {}
    /\ cardReq = {}

\* One of the three pages is mounted (each is a route of its own), against a
\* completed registry: the requests of the page that set and clear a busy flag.
PagesInit ==
    /\ version \in {"v1", "v2"}
    /\ \/ AnnotateInit /\ AnalyzeUnmounted /\ ReportsUnmounted
       \/ AnnotateUnmounted /\ AnalyzeInit /\ ReportsUnmounted /\ version = "v2"
       \/ AnnotateUnmounted /\ AnalyzeUnmounted /\ ReportsInit /\ version = "v2"
    /\ TimelineIdle /\ ActivityIdle /\ ToastInit
    /\ apiLast = NoCall
    /\ srv \in CompletedRegistries

PagesNext ==
    \/ handleFileChange
    \/ handleUpload
    \/ handleSampleVideo
    \/ UploadSettle
    \/ AnalyzeFetchSettle
    \/ \E p \in ProjectIds \cup {NoProject} : setSelectedProject(p)
    \/ handleAnalyze
    \/ AnalyzeSettle
    \/ \E c \in ProjectIds \cup {NoProject} : ReportsFetchSettle(c)
    \/ \E p \in ProjectIds : handleGenerateReports(p)
    \/ \E p \in ProjectIds : GenerateReportsDone(p)
    \/ \E p \in ProjectIds : GenerateReportsThrows(p)
    \/ \E p \in ProjectIds : handleGenerateDatasetCard(p)
    \/ \E p \in ProjectIds : CardSettle(p)

SpecPages == PagesInit /\ [][PagesNext]_vars

\* The handlers behind a guard: the annotate page from an empty registry, or
\* the analyze page against a settled one.
HandlersInit ==
    /\ \/ /\ version \in {"v1", "v2"}
          /\ AnnotateInit /\ AnalyzeUnmounted
          /\ srv = EmptyRegistry
       \/ /\ version = "v2"
          /\ AnnotateUnmounted /\ AnalyzeInit
          /\ srv \in SettledRegistries
    /\ ReportsUnmounted /\ TimelineIdle /\ ActivityIdle /\ ToastInit
    /\ apiLast = NoCall

HandlersNext ==
    \/ Next
    \/ AnalyzeFetchSettle
    \/ \E p \in ProjectIds \cup {NoProject} : setSelectedProject(p)
    \/ handleAnalyze
    \/ AnalyzeSettle

SpecHandlers == HandlersInit /\ [][HandlersNext]_vars

\* The analyze page, and direct analyze calls, against a settled registry.
AnalyzePageInit ==
    /\ version = "v2"
    /\ AnnotateInit /\ AnalyzeInit /\ ReportsInit /\ TimelineIdle /\ ActivityIdle /\ ToastInit
    /\ apiLast = NoCall
    /\ srv \in SettledRegistries

AnalyzePageNext ==
    \/ AnalyzeFetchSettle
    \/ \E p \in ProjectIds \cup {NoProject} : setSelectedProject(p)
    \/ handleAnalyze
    \/ AnalyzeSettle
    \/ \E p \in ProjectIds : ApiAnalyzeVideo(p)

SpecAnalyze == AnalyzePageInit /\ [][AnalyzePageNext]_vars

\* The reports page, and direct report calls, against a completed registry
\* (the report gates read has_analysis alone).
ReportsPageInit ==
    /\ version = "v2"
    /\ AnnotateInit /\ AnalyzeInit /\ ReportsInit /\ TimelineIdle /\ ActivityIdle /\ ToastInit
    /\ apiLast = NoCall
    /\ srv \in CompletedRegistries

ReportsPageNext ==
    \/ \E c \in ProjectIds \cup {NoProject} : ReportsFetchSettle(c)
    \/ \E p \in ProjectIds : handleGenerateReports(p)
    \/ \E p \in ProjectIds : GenerateReportsDone(p)
    \/ \E p \in ProjectIds : GenerateReportsThrows(p)
    \/ \E p \in ProjectIds : handleGenerateDatasetCard(p)
    \/ \E p \in ProjectIds : CardSettle(p)
    \/ \E p \in ProjectIds : ApiGenerateReports(p)
    \/ \E p \in ProjectIds : ApiGenerateDatasetCard(p)

SpecReports == ReportsPageInit /\ [][ReportsPageNext]_vars

\* The anomaly timeline rendered once on each input.
TimelineInit ==
    /\ version = "v2"
    /\ AnnotateInit /\ AnalyzeInit /\ ReportsInit /\ ActivityIdle /\ ToastInit
    /\ apiLast = NoCall
    /\ srv = EmptyRegistry
    /\ anomalies \in SeqsUpTo(FrameValues, MaxAnomalies)
    /\ totalFrames \in TotalValues
    /\ markers = Unrendered

TimelineNext == AnomalyTimeline

SpecTimeline == TimelineInit /\ [][TimelineNext]_vars

\* The activity track rendered once on each input.
ActivityInit ==
    /\ version = "v2"
    /\ AnnotateInit /\ AnalyzeInit /\ ReportsInit /\ TimelineIdle /\ ToastInit
    /\ apiLast = NoCall
    /\ srv = EmptyRegistry
    /\ activities \in SeqsUpTo(Activities, MaxActivities)
    /\ trackFrames \in TrackFrameValues
    /\ track = NoTrack

ActivityNext == ActivityTrack

SpecActivity == ActivityInit /\ [][ActivityNext]_vars

\* The toast list: toasts are added, closed by hand, and removed by timers
\* that fire.
ToastProviderInit ==
    /\ version = "v2"
    /\ AnnotateInit /\ AnalyzeInit /\ ReportsInit /\ TimelineIdle /\ ActivityIdle
    /\ apiLast = NoCall
    /\ srv = EmptyRegistry
    /\ ToastInit

ToastNext ==
    \/ addToast
    \/ \E id \in ToastIds : removeToast(id)
    \/ \E t \in toastTimers : toastTimerFires(t)

SpecToast ==
    /\ ToastProviderInit /\ [][ToastNext]_vars
    /\ \A c \in 1..MaxToasts : \A id \in ToastIds :
          WF_vars(toastTimerFires([id |-> id, call |-> c]))

\* ------------------------------------------------------------------- claims
\* C1: when pollStatus processes a status read that returned "failed", the run
\* ends: status becomes error, segmenting becomes false, and the run never
\* again holds a timer or a status request.
C1_FailedPollEndsLoop ==
    [][\A r \in Runs :
        /\ (loop[r] = "got" /\ statusData[r].status = "failed")
              => (loop'[r] = "failed" => (status' = "error" /\ ~segmenting'))
        /\ (loop[r] = "got" /\ statusData[r].status = "failed")
              => loop'[r] \in {"got", "failed"}
        /\ loop[r] = "failed" => loop'[r] = "failed"]_vars

C1_Witness ==
    \E r \in Runs : loop[r] = "failed" /\ status = "error" /\ ~segmenting

\* C2: an accepted upload gives status uploaded; a submitted segmentation gives
\* status segmenting; a poll returning a non-terminal status with progress 40
\* leaves status segmenting and schedules the next poll; a poll returning
\* segmented with stats gives status segmented, stores the stats and ends the
\* run, and the project then has has_segmentation.
C2_SuccessPath ==
    [][/\ (uploadReq # "none" /\ uploadReq' = "none" /\ projectId' # NoProject)
             => status' = "uploaded"
       /\ nRuns' # nRuns => status' = "segmenting"
       /\ \A r \in Runs :
            /\ (loop[r] = "starting" /\ loop'[r] = "timer") => status' = "segmenting"
            /\ (/\ loop[r] = "got" /\ loop'[r] # "got"
                /\ statusData[r].status \notin {"segmented", "failed"}
                /\ statusData[r].progress = 40)
                  => (status' = "segmenting" /\ segmenting' /\ loop'[r] = "timer")
            /\ (/\ loop[r] = "got" /\ loop'[r] # "got"
                /\ statusData[r].status = "segmented")
                  => /\ status' = "segmented"
                     /\ ~segmenting'
                     /\ stats' = StatsOf(projectId) /\ stats' # NoStats
                     /\ loop'[r] = "done"
                     /\ srv'[projectId].has_segmentation]_vars

C2_Witness ==
    /\ projectId # NoProject
    /\ status = "segmented"
    /\ stats = StatsOf(projectId)
    /\ srv[projectId].has_segmentation
    /\ \E r \in Runs : loop[r] = "done"

\* C3 (as claimed): once the page is unmounted no poll timer is pending and no
\* status request is issued.
C3_NoPollAfterUnmount ==
    [][~mounted' =>
          \A r \in Runs :
             /\ loop'[r] # "timer"
             /\ (loop'[r] = "reading" => loop[r] = "reading")]_vars

\* C4: an analysis started on a project without has_segmentation is answered
\* InvalidState and leaves the project without analysis; no project has an
\* analysis without a segmentation; the analyze page submits no analyze request
\* for a project without has_segmentation.
C4_AnalysisGate ==
    /\ (apiLast.op = "analyze" /\ Known(apiLast.p)
          /\ ~srv[apiLast.p].has_segmentation)
            => (apiLast.res = "InvalidState" /\ ~srv[apiLast.p].has_analysis)
    /\ \A p \in ProjectIds : srv[p].has_analysis => srv[p].has_segmentation
    /\ aReq # NoProject => srv[aReq].has_segmentation

C4_Witness ==
    /\ apiLast.op = "analyze" /\ apiLast.res = "InvalidState"
    /\ Known(apiLast.p) /\ srv[apiLast.p].seg = "failed"
    /\ aReq # NoProject

\* C5: no project has two segmentation jobs in flight and the page has at most
\* one start-segmentation request pending; a submission that settles while a
\* job of the project is in flight is rejected (ConflictError unless the
\* request itself failed) and starts no job.
C5_OneSegmentationInFlight ==
    /\ [](/\ \A p \in ProjectIds : srv[p].jobs <= 1
          /\ Cardinality({r \in Runs : loop[r] = "starting"}) <= 1)
    /\ [][\A r \in Runs :
            (/\ loop[r] = "starting" /\ loop'[r] # "starting"
             /\ srv[projectId].jobs > 0)
               => /\ loop'[r] \in {"ConflictError", "UpstreamError", "NetworkError"}
                  /\ srv' = srv]_vars

C5_Witness ==
    \E r \in Runs : loop[r] = "ConflictError" /\ srv[projectId].jobs = 1

\* C6: has_analysis implies has_segmentation, has_reports implies has_analysis,
\* and no step resets a flag that is true.
C6_FlagsMonotone ==
    /\ [](\A p \in ProjectIds :
            /\ srv[p].has_analysis => srv[p].has_segmentation
            /\ srv[p].has_reports => srv[p].has_analysis)
    /\ [][\A p \in ProjectIds :
            /\ srv[p].has_segmentation => srv'[p].has_segmentation
            /\ srv[p].has_analysis => srv'[p].has_analysis
            /\ srv[p].has_reports => srv'[p].has_reports]_vars

C6_Witness ==
    \E p \in ProjectIds :
        /\ srv[p].has_segmentation /\ srv[p].has_analysis /\ srv[p].has_reports
        /\ srv[p].seg = "failed"

\* C7 (as claimed): start-segmentation is available exactly when the status is
\* uploaded or segmented.
C7_Original ==
    CanSegment <=> status \in {"uploaded", "segmented"}

\* C7 (amended): start-segmentation is available exactly when a project id is
\* held and the status is uploaded or error, and a submission is only ever made
\* from one of these two statuses.
C7_Amended ==
    /\ [](CanSegment <=> (projectId # NoProject /\ status \in {"uploaded", "error"}))
    /\ [][(\E r \in Runs : loop[r] # "starting" /\ loop'[r] = "starting")
             => (projectId # NoProject /\ status \in {"uploaded", "error"})]_vars

C7_Witness ==
    /\ nRuns >= 2
    /\ loop[2] = "starting"
    /\ loop[1] \notin {"idle", "starting"}

\* C8 (as claimed): an accepted re-segmentation of a segmented project leaves
\* has_analysis and has_reports false.
C8_ResegmentationResets ==
    [][\A p \in ProjectIds :
          (srv[p].has_segmentation /\ srv'[p].jobs > srv[p].jobs)
             => (~srv'[p].has_analysis /\ ~srv'[p].has_reports)]_vars

\* C9: the reports page submits generate-reports and generate-dataset-card only
\* for projects with has_analysis; either call on a project without
\* has_analysis is answered InvalidState; no project without has_analysis has
\* reports or a dataset card.
C9_ReportsGate ==
    /\ \A p \in genReq \cup cardReq : srv[p].has_analysis
    /\ (apiLast.op \in {"reports", "card"} /\ Known(apiLast.p)
          /\ ~srv[apiLast.p].has_analysis)
            => apiLast.res = "InvalidState"
    /\ \A p \in ProjectIds :
          ~srv[p].has_analysis => (~srv[p].has_reports /\ p \notin datasetCards)

C9_Witness ==
    /\ apiLast.op \in {"reports", "card"} /\ apiLast.res = "InvalidState"
    /\ Known(apiLast.p)
    /\ genReq # {} /\ cardReq # {}

\* C10: with totalFrames > 0, every anomaly with 0 <= frame_index <= totalFrames
\* gets the marker position frame_index / totalFrames, as a percentage between
\* 0 and 100; frame 50 of 100 is at exactly 50%.
C10_PositionInRange ==
    (markers.state = "rendered" /\ totalFrames > 0) =>
        /\ Len(markers.list) = Len(anomalies)
        /\ \A i \in 1..Len(anomalies) :
              (0 <= anomalies[i] /\ anomalies[i] <= totalFrames) =>
                 LET m == markers.list[i] IN
                 /\ m.den > 0
                 /\ m.num * totalFrames = 100 * anomalies[i] * m.den
                 /\ 0 <= m.num /\ m.num <= 100 * m.den
                 /\ (totalFrames = 100 /\ anomalies[i] = 50) => m.num = 50 * m.den

C10_Witness ==
    /\ markers.state = "rendered"
    /\ totalFrames = 100
    /\ anomalies = <<50>>
    /\ markers.list[1].num = 50 * markers.list[1].den

\* C11: a timeline rendered with a non-empty anomaly list has totalFrames > 0
\* (a degenerate frame count produces no position), and no marker lies beyond
\* the end of the track: a position is at most 100%, also for a frame_index
\* above totalFrames.
C11_DegenerateRejectedAndClamped ==
    markers.state = "rendered" =>
        /\ totalFrames > 0
        /\ \A i \in 1..Len(markers.list) :
              markers.list[i].num <= 100 * markers.list[i].den

\* C12: the timeline emits one marker per anomaly, and the markers are in
\* ascending order of frame_index whatever the order of the input.
C12_MarkersSorted ==
    (markers.state = "rendered" /\ totalFrames > 0) =>
        /\ Len(markers.list) = Len(anomalies)
        /\ \A i, j \in 1..Len(markers.list) :
              i < j => markers.list[i].num <= markers.list[j].num

\* C13: with totalFrames > 0 the activity track emits one band per activity,
\* band i for activity i of the input, of width exactly
\* (end_frame - start_frame) / totalFrames (as a percentage), neither clamped
\* nor renormalised: the bands of activities that do not overlap and lie
\* within the track sum to at most 100%, and [{0,25},{25,100}] of 100 frames
\* gives the widths 25% and 75%.
C13_BandWidths ==
    (track.state = "rendered" /\ trackFrames > 0) =>
        /\ Len(track.bands) = Len(activities)
        /\ \A i \in 1..Len(activities) :
              LET b == track.bands[i]
                  a == activities[i]
              IN /\ b.label = a.label
                 /\ b.width.den > 0
                 /\ b.width.num * trackFrames
                       = 100 * (a.end_frame - a.start_frame) * b.width.den
        /\ LET RECURSIVE SumNum(_)
               SumNum(n) == IF n = 0 THEN 0
                            ELSE track.bands[n].width.num + SumNum(n - 1)
               disjoint == \A i, j \in 1..Len(activities) :
                              i # j => activities[i].end_frame
                                          <= activities[j].start_frame
                                       \/ activities[j].end_frame
                                          <= activities[i].start_frame
               within == \A i \in 1..Len(activities) :
                            activities[i].end_frame <= trackFrames
           IN (disjoint /\ within)
                 => SumNum(Len(track.bands)) <= 100 * trackFrames
        /\ (/\ trackFrames = 100
            /\ Len(activities) = 2
            /\ activities[1].start_frame = 0 /\ activities[1].end_frame = 25
            /\ activities[2].start_frame = 25 /\ activities[2].end_frame = 100)
              => /\ track.bands[1].width.num = 25 * track.bands[1].width.den
                 /\ track.bands[2].width.num = 75 * track.bands[2].width.den

\* Overlapping activities in an order that is not that of start_frame: the
\* bands keep the input order and their widths sum to more than 100%.
C13_Witness ==
    /\ track.state = "rendered"
    /\ trackFrames = 100
    /\ Len(activities) = 2
    /\ activities[1].start_frame = 25 /\ activities[1].end_frame = 100
    /\ activities[2].start_frame = 0 /\ activities[2].end_frame = 100
    /\ track.bands[1].width.num = 75 * trackFrames
    /\ track.bands[2].width.num = 100 * trackFrames
    /\ track.bands[1].width.num + track.bands[2].width.num > 100 * trackFrames

\* C14: the colour of a band is decided by case-sensitive substring tests in
\* priority order: red for a label containing "High" or "Congestion",
\* otherwise yellow for "Moderate", otherwise green for "Light", otherwise
\* gray; "Light Congestion" is red and "high" is gray.
C14_ColorTier ==
    track.state = "rendered" =>
        \A i \in 1..Len(track.bands) :
            LET l == activities[i].label
                c == track.bands[i].color
                top == includes(l, "High") \/ includes(l, "Congestion")
                mid == includes(l, "Moderate")
                low == includes(l, "Light")
            IN /\ top => c = "bg-red-500"
               /\ (~top /\ mid) => c = "bg-yellow-500"
               /\ (~top /\ ~mid /\ low) => c = "bg-green-500"
               /\ (~top /\ ~mid /\ ~low) => c = "bg-gray-400"
               /\ l = "Light Congestion" => c = "bg-red-500"
               /\ l = "high" => c = "bg-gray-400"

C14_Witness ==
    /\ track.state = "rendered"
    /\ Len(track.bands) = 2
    /\ activities[1].label = "Light Congestion" /\ track.bands[1].color = "bg-red-500"
    /\ activities[2].label = "high" /\ track.bands[2].color = "bg-gray-400"

\* C15: the legend holds every label of the input exactly once, in the order
\* of first occurrence, each with the colour of the bands of that label.
C15_Legend ==
    track.state = "rendered" =>
        LET lg == track.legend
            first(l) == CHOOSE i \in 1..Len(activities) :
                            /\ activities[i].label = l
                            /\ \A j \in 1..(i - 1) : activities[j].label # l
        IN /\ {lg[i].label : i \in 1..Len(lg)}
                = {activities[i].label : i \in 1..Len(activities)}
           /\ \A i, j \in 1..Len(lg) : i # j => lg[i].label # lg[j].label
           /\ \A i, j \in 1..Len(lg) :
                 i < j => first(lg[i].label) < first(lg[j].label)
           /\ \A i \in 1..Len(lg) : \A k \in 1..Len(track.bands) :
                 track.bands[k].label = lg[i].label
                    => track.bands[k].color = lg[i].color

\* A repeated label appears once in the legend.
C15_Witness ==
    /\ track.state = "rendered"
    /\ Len(activities) = 2
    /\ activities[1].label = activities[2].label
    /\ Len(track.legend) = 1
    /\ track.legend[1].label = activities[1].label

\* C16: a status read changes no project state, and on a project whose
\* segmentation job has ended it returns the terminal status (segmented with
\* the stats, or failed); a read that follows a read of the same project with
\* a terminal answer returns the same status and the same result.
C16_StatusReadIdempotent ==
    [][\A p \in ProjectIds :
        (apiLast'.op = "status" /\ apiLast'.p = p /\ apiLast' # apiLast) =>
            /\ srv' = srv
            /\ (Known(p) /\ srv[p].jobs = 0 /\ srv[p].seg = "done")
                  => (apiLast'.res = "segmented" /\ apiLast'.stats = StatsOf(p))
            /\ (Known(p) /\ srv[p].jobs = 0 /\ srv[p].seg = "failed")
                  => (apiLast'.res = "failed" /\ apiLast'.stats = NoStats)
            /\ (/\ apiLast.op = "status" /\ apiLast.p = p
                /\ apiLast.res \in {"segmented", "failed"})
                  => (apiLast'.res = apiLast.res /\ apiLast'.stats = apiLast.stats)]_vars

\* A terminal status has been read by a read that followed a read: failed,
\* with no result.
C16_Witness ==
    /\ apiLast.op = "status" /\ apiLast.res = "failed" /\ apiLast.call = "even"
    /\ Known(apiLast.p)
    /\ srv[apiLast.p].seg = "failed" /\ srv[apiLast.p].jobs = 0

\* C17: the progress value the annotate page holds is always between 0 and
\* 100, and while one segmentation run is under way it never decreases,
\* whatever progress values the status reads report.
C17_ProgressClampedMonotone ==
    /\ [](0 <= progress /\ progress <= 100)
    /\ [][(segmenting /\ segmenting' /\ nRuns' = nRuns)
             => progress' >= progress]_vars

\* C18: a status request that fails is not taken as the failure of the job:
\* the run schedules its next poll and the page stays as it was.
C18_FailedPollRetried ==
    [][\A r \in Runs :
        (loop[r] = "reading" /\ loop'[r] \notin {"reading", "got"})
            => /\ loop'[r] = "timer"
               /\ status' = status
               /\ segmenting' = segmenting]_vars

\* C19: after a failure the project held by the page is still in the registry
\* and the failed stage can be started again: with no project (the upload
\* failed) an upload button is enabled, with a project (the segmentation
\* failed) the Start Segmentation button is.
C19_FailedStageRetryable ==
    (mounted /\ status = "error") =>
        IF projectId = NoProject
        THEN ~UploadDisabled \/ (version = "v2" /\ ~SampleDisabled)
        ELSE Known(projectId) /\ CanSegment

\* C20 (as stated): the page status changes only along the table: uploaded
\* only after idle (through the uploading of the accepted upload), segmenting
\* only from uploaded, segmented only from segmenting, and error only from the
\* step in progress.
C20_Original ==
    [][status' # status =>
          \/ status = "idle" /\ status' = "uploading"
          \/ status = "uploading" /\ status' \in {"uploaded", "error"}
          \/ status = "uploaded" /\ status' = "segmenting"
          \/ status = "segmenting" /\ status' \in {"segmented", "error"}]_vars

\* C20 (amended): as above, and segmenting is also entered from error, by
\* the start of a segmentation after a failed one.
C20_Amended ==
    [][status' # status =>
          \/ status = "idle" /\ status' = "uploading"
          \/ status = "uploading" /\ status' \in {"uploaded", "error"}
          \/ status \in {"uploaded", "error"} /\ status' = "segmenting"
                /\ projectId # NoProject
          \/ status = "segmenting" /\ status' \in {"segmented", "error"}]_vars

\* A segmentation started from error has run to segmented.
C20_Witness ==
    /\ status = "segmented"
    /\ nRuns = 2
    /\ loop[2] = "done"

\* C21: the Dataset Card button of a listed project is available whether or
\* not the project has reports (it needs only that no card is held and no card
\* request of the project is marked), a direct card request on an analysed
\* project is accepted whatever has_reports is, and a step of card generation
\* (request or settling, success or failure) changes neither the registry nor
\* the report state of the page.
C21_CardIndependentOfReports ==
    /\ [](/\ \A p \in ProjectIds :
               (/\ ~rLoading /\ p \in rProjects /\ p \notin datasetCards
                /\ generatingCard # p) => CanGenerateCard(p)
          /\ (apiLast.op = "card" /\ Known(apiLast.p) /\ srv[apiLast.p].has_analysis)
                => apiLast.res = "ok")
    /\ [][(cardReq' # cardReq \/ (apiLast' # apiLast /\ apiLast'.op = "card"))
             => /\ srv' = srv
                /\ rHasReports' = rHasReports
                /\ generating' = generating
                /\ genReq' = genReq]_vars

\* Cards are held for a project without reports and for one with reports.
C21_Witness ==
    \E p, q \in ProjectIds :
        /\ p \in datasetCards /\ ~srv[p].has_reports /\ p \notin rHasReports
        /\ q \in datasetCards /\ srv[q].has_reports /\ q \in rHasReports

\* C22: when an analyze request resolves, the analysis held by the page is
\* the analysis of the response, field for field; where an analysis was held
\* before, nothing of it is kept.
C22_AnalysisReplaced ==
    [][(aReq # NoProject /\ aReq' = NoProject /\ aData'.outcome = "resolved")
          => /\ analysis' = aData'.analysis
             /\ \A f \in DOMAIN analysis' : analysis'[f] = aData'.analysis[f]]_vars

\* A second analysis that lacks fields the first one had is held as it came.
C22_Witness ==
    /\ aData.outcome = "resolved" /\ aData.replaced
    /\ aReq = NoProject
    /\ analysis.key_findings = "B"
    /\ analysis.anomaly_events = "absent"
    /\ analysis.activities = "absent"
    /\ analysis.kpis = "absent"

\* C23: a run of the poll loop has one timer or one status request at a time,
\* a poll is scheduled only by the accepted submission or by a read that
\* returned a non-terminal status, and, when no status request errors and the
\* job ends, every run that has started polling stops on the terminal status
\* with segmenting false.
C23_PollUntilTerminal ==
    /\ [][\A r \in Runs :
            (loop[r] # "timer" /\ loop'[r] = "timer")
               => \/ loop[r] = "starting"
                  \/ /\ loop[r] = "got"
                     /\ statusData[r].status \notin {"segmented", "failed"}]_vars
    /\ \A r \in Runs :
          (loop[r] = "timer") ~> (loop[r] \in {"done", "failed"} /\ ~segmenting)

\* A run of the older page has polled until the job was done and stopped.
C23_Witness ==
    \E r \in Runs :
        /\ loop[r] = "done" /\ ~segmenting
        /\ srv[projectId].seg = "done" /\ srv[projectId].jobs = 0
        /\ version = "v1"

\* C24: over all runs of handleSegment of one page there is at most one
\* pending poll timer or status request (outstanding or being processed) at
\* any time, and while there is one the Start Segmentation button is disabled.
C24_OnePollLoop ==
    /\ Cardinality({r \in Runs : loop[r] \in {"timer", "reading", "got"}}) <= 1
    /\ (\E r \in Runs : loop[r] \in {"timer", "reading", "got"}) => ~CanSegment

\* The second run polls after the first one ended without a loop.
C24_Witness ==
    /\ nRuns = 2
    /\ loop[1] \notin {"idle", "starting", "timer", "reading", "got"}
    /\ loop[2] = "reading"
    /\ segmenting

\* C25: once a segmentation has been started and no run of it holds a
\* submission, a timer or a status request any more, segmenting is false and
\* the status is segmented or error.
C25_StoppedLoopNotSegmenting ==
    (/\ nRuns > 0
     /\ \A r \in Runs : loop[r] \notin {"starting", "timer", "reading", "got"})
        => (~segmenting /\ status \in {"segmented", "error"})

\* C26: when a request settles, succeeded or failed, its busy flag is cleared:
\* uploading after an upload or sample request, analyzing after an analyze
\* request, generating after a report generation (with the refresh it awaits),
\* generatingCard after a card generation; and no flag is set while no request
\* of its kind is in flight.
C26_BusyFlagsCleared ==
    /\ [](/\ uploadReq = "none" => ~uploading
          /\ aReq = NoProject => ~analyzing
          /\ (genReq = {} /\ rFetch \subseteq {NoProject}) => generating = NoProject
          /\ cardReq = {} => generatingCard = NoProject)
    /\ [][/\ (uploadReq # "none" /\ uploadReq' = "none") => ~uploading'
          /\ (aReq # NoProject /\ aReq' = NoProject) => ~analyzing'
          /\ \A p \in ProjectIds :
                /\ (p \in genReq \cup rFetch /\ p \notin genReq' \cup rFetch')
                      => generating' = NoProject
                /\ (p \in cardReq /\ p \notin cardReq')
                      => generatingCard' = NoProject]_vars

\* On the analyze page one request has resolved and a later one has thrown;
\* the flag is cleared.
C26_Witness ==
    /\ analysis # NoAnalysis
    /\ aData.outcome = "thrown"
    /\ aReq = NoProject
    /\ ~analyzing

\* C27: an upload or sample request is issued only from status idle with no
\* upload in flight, so at most one is in flight; the project id, once
\* assigned, is never assigned again; the upload buttons are enabled only
\* while the status is idle and uploading is false; the status never returns
\* to idle.
C27_SingleUpload ==
    /\ [](/\ ~UploadDisabled => (status = "idle" /\ ~uploading /\ uploadReq = "none")
          /\ ~SampleDisabled => (status = "idle" /\ ~uploading /\ uploadReq = "none")
          /\ uploadReq # "none" => (uploading /\ status = "uploading"))
    /\ [][/\ (uploadReq' # uploadReq /\ uploadReq' # "none")
                => (uploadReq = "none" /\ status = "idle" /\ ~uploading)
          /\ projectId # NoProject => projectId' = projectId
          /\ status # "idle" => status' # "idle"]_vars

\* A project id is held, a file is still selected, and no further upload can
\* be started.
C27_Witness ==
    /\ mounted /\ file
    /\ projectId # NoProject
    /\ status = "uploaded"
    /\ UploadDisabled /\ SampleDisabled

\* C28: the annotate page holds stats only in status segmented, and in the
\* statuses uploaded, segmenting and segmented it holds a project id.
C28_StatsOnlyWhenSegmented ==
    /\ stats # NoStats => status = "segmented"
    /\ status \in {"uploaded", "segmenting", "segmented"} => projectId # NoProject

\* The first run has completed: stats are held in status segmented.
C28_Witness ==
    /\ stats # NoStats
    /\ status = "segmented"
    /\ projectId # NoProject
    /\ nRuns = 1 /\ ~segmenting

\* C29: a file upload request is issued only with a file selected, a
\* segmentation is started only with a project id held, an analyze request is
\* issued only for a selected project; without them the handlers change
\* nothing.  An analyze request that fails leaves the held analysis and the
\* registry as they were.
C29_GuardsAndFailedAnalyze ==
    [][/\ (uploadReq' # uploadReq /\ uploadReq' = "upload") => file
       /\ (~file /\ status' # status /\ status' = "uploading") => uploadReq' = "sample"
       /\ (nRuns' # nRuns \/ (~segmenting /\ segmenting'))
             => (projectId # NoProject /\ projectId' = projectId)
       /\ ((aReq' # aReq /\ aReq' # NoProject) \/ (~analyzing /\ analyzing'))
             => (selectedProject # NoProject /\ aReq' = selectedProject)
       /\ (aReq # NoProject /\ aReq' = NoProject /\ aData'.outcome = "thrown")
             => (analysis' = analysis /\ srv' = srv)]_vars

\* An analysis is held, and an analyze request of the selected, analysed
\* project has thrown since.
C29_Witness ==
    /\ aData.outcome = "thrown"
    /\ analysis.key_findings = "A"
    /\ selectedProject # NoProject
    /\ srv[selectedProject].has_analysis

\* C30: every toast added is eventually gone; a removal (by hand or by a
\* timer) takes exactly the toast it is for out of the list and leaves the
\* others in their order; a timer that fires after its toast was removed
\* changes nothing.
C30_ToastRemoval ==
    /\ \A c \in 1..MaxToasts :
          (\E i \in 1..Len(toasts) : toasts[i].call = c)
             ~> ~(\E i \in 1..Len(toasts) : toasts[i].call = c)
    /\ [][/\ Len(toasts') < Len(toasts) => Len(toasts') = Len(toasts) - 1
          /\ \A t \in toastTimers :
                (/\ t \notin toastTimers'
                 /\ ~(\E i \in 1..Len(toasts) : toasts[i].call = t.call))
                   => toasts' = toasts]_vars

====
